---- MODULE Spec2Model ----
(***************************************************************************)
(* cvr-i18n (src/main.rs): one invocation of the command-line tool over a  *)
(* small file system.  A text is a sequence of one-character strings, a    *)
(* path is a sequence of components, a JSON document is kept by its        *)
(* structure and rendered to text where the code reads the raw text.       *)
(***************************************************************************)
EXTENDS Integers, Sequences, FiniteSets, TLC

\* ------------------------------------------------------------------ bounds

\* Most raw top-level entries of a locale file in the whole-run specification.
MaxKeys == 2
\* Most raw top-level entries of the file given to the duplicate scan's
\* own specification (SpecScan).
MaxScanEntries == 3
\* Most raw top-level entries of the base and of the target in the sort's
\* own specification (SpecSort).
MaxSortKeys == 3
\* Most invocations of the tool in a row on the same file system.
MaxRuns == 2

\* ----------------------------------------------------------------- helpers

NoPath == <<>>

Range(f) == {f[i] : i \in DOMAIN f}

SeqsUpTo(S, n) == UNION {[1..m -> S] : m \in 0..n}

\* The byte of each character the model uses (ASCII).
Byte(c) ==
    CASE c = " "  -> 32
      [] c = "\"" -> 34
      [] c = ","  -> 44
      [] c = "1"  -> 49
      [] c = "2"  -> 50
      [] c = "3"  -> 51
      [] c = ":"  -> 58
      [] c = "["  -> 91
      [] c = "\\" -> 92
      [] c = "]"  -> 93
      [] c = "a"  -> 97
      [] c = "b"  -> 98
      [] c = "c"  -> 99
      [] c = "n"  -> 110
      [] c = "x"  -> 120
      [] c = "{"  -> 123
      [] c = "}"  -> 125
      [] c = "LF" -> 10

\* char::is_whitespace on the characters of the model.
is_whitespace(c) == c \in {" ", "LF"}

\* str's Ord: bytewise lexicographic, the order of a BTreeMap<String, _>.
RECURSIVE StrLess(_, _)
StrLess(s, t) ==
    IF t = <<>> THEN FALSE
    ELSE IF s = <<>> THEN TRUE
    ELSE IF Byte(Head(s)) # Byte(Head(t)) THEN Byte(Head(s)) < Byte(Head(t))
    ELSE StrLess(Tail(s), Tail(t))

\* ------------------------------------------------ extract_top_level_keys

\* The inner loop at depth 1: from i (after the opening quote) to the closing
\* quote; an escape pushes the byte after the backslash as it is.
RECURSIVE ReadKey(_, _, _)
ReadKey(s, i, key) ==
    IF i > Len(s) THEN [i |-> i, key |-> key]
    ELSE IF s[i] = "\\"
         THEN IF i + 1 <= Len(s)
              THEN ReadKey(s, i + 2, Append(key, s[i + 1]))
              ELSE ReadKey(s, i + 1, key)
    ELSE IF s[i] = "\"" THEN [i |-> i + 1, key |-> key]
    ELSE ReadKey(s, i + 1, Append(key, s[i]))

RECURSIVE SkipWhitespace(_, _)
SkipWhitespace(s, i) ==
    IF i <= Len(s) /\ is_whitespace(s[i]) THEN SkipWhitespace(s, i + 1) ELSE i

\* A string at another depth: skipped, an escape skips two bytes.
RECURSIVE SkipString(_, _)
SkipString(s, i) ==
    IF i > Len(s) THEN i
    ELSE IF s[i] = "\\" THEN SkipString(s, i + 2)
    ELSE IF s[i] = "\"" THEN i + 1
    ELSE SkipString(s, i + 1)

RECURSIVE ScanFrom(_, _, _, _)
ScanFrom(s, i, depth, keys) ==
    IF i > Len(s) THEN keys
    ELSE CASE s[i] = "{" -> ScanFrom(s, i + 1, depth + 1, keys)
           [] s[i] = "}" -> ScanFrom(s, i + 1, depth - 1, keys)
           [] s[i] = "\"" /\ depth = 1 ->
                LET r == ReadKey(s, i + 1, <<>>)
                    j == SkipWhitespace(s, r.i)
                IN  ScanFrom(s, j, depth,
                             IF j <= Len(s) /\ s[j] = ":"
                             THEN Append(keys, r.key) ELSE keys)
           [] s[i] = "\"" /\ depth # 1 ->
                ScanFrom(s, SkipString(s, i + 1), depth, keys)
           [] OTHER -> ScanFrom(s, i + 1, depth, keys)

extract_top_level_keys(s) == ScanFrom(s, 1, 0, <<>>)

\* --------------------------------------------------------------- documents

\* A file's content: its kind and its raw top-level entries in source order.
\* An entry is the key as written between the quotes, whether a space
\* separates the key from the colon, and the value as written.
\*   object     a well-formed JSON object
\*   malformed  the same text without the closing brace
\*   array      well-formed JSON whose root is not an object
\*   unreadable the file exists and reading it fails
\*   absent     no such file
Entry(key, sp, val) == [key |-> key, sp |-> sp, val |-> val]

Doc(kind, entries) == [kind |-> kind, entries |-> entries]

AbsentDoc == Doc("absent", <<>>)

RenderEntry(e) ==
    <<"\"">> \o e.key \o <<"\"">> \o (IF e.sp THEN <<" ">> ELSE <<>>)
        \o <<":">> \o e.val

RECURSIVE RenderEntries(_)
RenderEntries(es) ==
    IF es = <<>> THEN <<>>
    ELSE IF Len(es) = 1 THEN RenderEntry(es[1])
    ELSE RenderEntry(es[1]) \o <<",">> \o RenderEntries(Tail(es))

\* The raw text of a readable file.
Render(doc) ==
    CASE doc.kind = "object"    -> <<"{">> \o RenderEntries(doc.entries) \o <<"}">>
      [] doc.kind = "malformed" -> <<"{">> \o RenderEntries(doc.entries)
      [] doc.kind = "array"     -> <<"[", "1", "]">>

\* The JSON string a raw key denotes: the escape \n is a line feed, \" a quote
\* and \\ a backslash.
RECURSIVE Unescape(_)
Unescape(raw) ==
    IF raw = <<>> THEN <<>>
    ELSE IF Head(raw) = "\\" /\ Len(raw) >= 2
         THEN <<(IF raw[2] = "n" THEN "LF" ELSE raw[2])>> \o Unescape(Tail(Tail(raw)))
    ELSE <<Head(raw)>> \o Unescape(Tail(raw))

\* The raw key that serde_json writes for a JSON string.
RECURSIVE Escape(_)
Escape(k) ==
    IF k = <<>> THEN <<>>
    ELSE (CASE Head(k) = "LF" -> <<"\\", "n">>
            [] Head(k) = "\"" -> <<"\\", "\"">>
            [] Head(k) = "\\" -> <<"\\", "\\">>
            [] OTHER -> <<Head(k)>>) \o Escape(Tail(k))

\* -------------------------------------------------------------- variables

VARIABLES
    args,            \* the parsed command line (matches)
    preserve_order,  \* whether serde_json is built with its preserve_order feature
    dirs,            \* the directories that exist
    fs,              \* the files: canonical path -> document
    pc,              \* where main is
    runs,            \* invocations started so far
    dir,             \* main's dir
    exit_code,       \* the process's exit code, -1 while it runs
    base_path,       \* main's base_path
    base_keys,       \* missing-key branch: HashSet<String> of the base's keys
    en_path,         \* missing-key branch, directory mode: dir.join("en.json")
    en_keys,         \* missing-key branch, directory mode: keys of en.json
    keys,            \* sort branch: Vec<String> of the base's keys
    pending,         \* the directory entries the loop has not yet reached
    any_errors,      \* duplicate scan, directory mode
    any_duplicates,  \* duplicate scan, directory mode
    any_missing,     \* missing-key scan, directory mode
    out,             \* what was printed: records [path, tag, list, counts]
    exports,         \* the export files written: path -> JSON array of keys
    written          \* the paths fs::write has rewritten in this invocation

vars == <<args, preserve_order, dirs, fs, pc, runs, dir, exit_code, base_path,
          base_keys, en_path, en_keys, keys, pending, any_errors,
          any_duplicates, any_missing, out, exports, written>>

\* -------------------------------------------------------------- serde_json

MapKeys(map) == [i \in 1..Len(map) |-> map[i].key]

MapHas(map, k) == \E i \in 1..Len(map) : map[i].key = k

MapGet(map, k) == map[CHOOSE i \in 1..Len(map) : map[i].key = k].val

\* Map::insert: an existing key keeps its place and takes the new value; a new
\* key goes last (IndexMap, preserve_order) or to its sorted place (BTreeMap).
MapInsert(map, k, v) ==
    IF MapHas(map, k)
    THEN [i \in 1..Len(map) |->
            IF map[i].key = k THEN [key |-> k, val |-> v] ELSE map[i]]
    ELSE IF preserve_order THEN Append(map, [key |-> k, val |-> v])
    ELSE LET n == Cardinality({i \in 1..Len(map) : StrLess(map[i].key, k)})
         IN  SubSeq(map, 1, n) \o <<[key |-> k, val |-> v]>>
                 \o SubSeq(map, n + 1, Len(map))

\* Map::remove: with preserve_order it is IndexMap's swap_remove (the last
\* entry takes the removed entry's place); a BTreeMap keeps its order.
MapRemove(map, k) ==
    IF ~MapHas(map, k) THEN map
    ELSE LET i == CHOOSE j \in 1..Len(map) : map[j].key = k
             n == Len(map)
         IN  IF preserve_order
             THEN [j \in 1..(n - 1) |-> IF j = i THEN map[n] ELSE map[j]]
             ELSE SubSeq(map, 1, i - 1) \o SubSeq(map, i + 1, n)

RECURSIVE InsertAll(_, _)
InsertAll(map, es) ==
    IF es = <<>> THEN map
    ELSE InsertAll(MapInsert(map, Unescape(Head(es).key), Head(es).val), Tail(es))

\* serde_json::from_str::<Value>: [ok, object, map].
from_str(doc) ==
    CASE doc.kind = "object" ->
            [ok |-> TRUE, object |-> TRUE, map |-> InsertAll(<<>>, doc.entries)]
      [] doc.kind = "array"  -> [ok |-> TRUE, object |-> FALSE, map |-> <<>>]
      [] OTHER               -> [ok |-> FALSE, object |-> FALSE, map |-> <<>>]

\* serde_json::to_string_pretty of Value::Object(map), as the document it is.
to_string_pretty(map) ==
    Doc("object", [i \in 1..Len(map) |-> Entry(Escape(map[i].key), FALSE, map[i].val)])

\* ----------------------------------------------------------- std::fs, Path

Locales == <<"locales">>

SrcLocales == <<"src", "locales">>

\* The file a path names: a "." component names the same directory.
Canon(path) == SelectSeq(path, LAMBDA c : c # ".")

Lookup(path) == IF Canon(path) \in DOMAIN fs THEN fs[Canon(path)] ELSE AbsentDoc

is_file(path) == Lookup(path).kind # "absent"

exists(path) == is_file(path) \/ Canon(path) \in dirs

\* fs::read_to_string succeeds.
Readable(path) == Lookup(path).kind \in {"object", "malformed", "array"}

join(d, name) == d \o <<name>>

parent(path) == SubSeq(path, 1, Len(path) - 1)

file_name(path) == path[Len(path)]

extension(path) ==
    CASE file_name(path) \in {"en.json", "zh.json", "fr.json"} -> "json"
      [] file_name(path) = "notes.txt" -> "txt"

file_stem(path) ==
    CASE file_name(path) = "en.json" -> "en"
      [] file_name(path) = "zh.json" -> "zh"
      [] file_name(path) = "fr.json" -> "fr"
      [] file_name(path) = "notes.txt" -> "notes"

\* fs::read_dir(d): the paths of d's entries, spelled through d.
read_dir(d) ==
    {join(d, file_name(p)) : p \in {q \in DOMAIN fs :
        fs[q].kind # "absent" /\ Len(q) > 0 /\ parent(q) = Canon(d)}}

\* ------------------------------------------------ find_duplicates_in_file

Occurrences(ks, k) == Cardinality({i \in 1..Len(ks) : ks[i] = k})

\* The HashMap of the keys that occur more than once, as its (key, count) pairs.
Duplicates(ks) ==
    {<<k, Occurrences(ks, k)>> : k \in {x \in Range(ks) : Occurrences(ks, x) > 1}}

\* Result<HashMap<String, usize>, String>: [ok, dups].
find_duplicates_in_file(path) ==
    IF ~Readable(path) THEN [ok |-> FALSE, dups |-> {}]
    ELSE LET s == Render(Lookup(path))
             dups == Duplicates(extract_top_level_keys(s))
         IN  IF dups = {} /\ ~from_str(Lookup(path)).ok
             THEN [ok |-> FALSE, dups |-> {}]
             ELSE [ok |-> TRUE, dups |-> dups]

\* ----------------------------------------------------------------- output

Line(path, tag, list, counts) ==
    [path |-> path, tag |-> tag, list |-> list, counts |-> counts]

Exit(code) == pc' = "exit" /\ exit_code' = code

\* The orders in which a HashSet's iterator may yield the set S.
Orderings(S) == {q \in [1..Cardinality(S) -> S] : Range(q) = S}

ExportName(path) ==
    CASE file_stem(path) = "en" -> "en_missing.json"
      [] file_stem(path) = "zh" -> "zh_missing.json"
      [] file_stem(path) = "fr" -> "fr_missing.json"
      [] file_stem(path) = "notes" -> "notes_missing.json"

\* fs::write(export_path, json): the export file holds the array.
WriteExport(path, missing) ==
    LET export_path == join(args.export, ExportName(path))
    IN  {e \in exports : e.path # export_path}
            \cup {[path |-> export_path, json |-> missing]}

\* ------------------------------------------------------- main: directory

\* main, lines 155-166: the directory given, else ./locales, else
\* ./src/locales, else exit 2.
ResolveDir ==
    /\ pc = "start"
    /\ IF args.directory # NoPath
       THEN /\ dir' = args.directory
            /\ pc' = "main"
            /\ UNCHANGED <<exit_code, out>>
       ELSE IF exists(Locales)
       THEN /\ dir' = Locales
            /\ pc' = "main"
            /\ UNCHANGED <<exit_code, out>>
       ELSE IF exists(SrcLocales)
       THEN /\ dir' = SrcLocales
            /\ pc' = "main"
            /\ UNCHANGED <<exit_code, out>>
       ELSE /\ out' = out \cup {Line(NoPath, "NO_DEFAULT_DIRECTORY", <<>>, {})}
            /\ Exit(2)
            /\ UNCHANGED dir
    /\ UNCHANGED <<args, preserve_order, dirs, fs, runs, base_path, base_keys,
                   en_path, en_keys, keys, pending, any_errors, any_duplicates,
                   any_missing, exports, written>>

\* ---------------------------------------------------- main: duplicated_key

\* What the duplicate scan prints for one file.
DupLine(path, r) ==
    IF ~r.ok THEN Line(path, "ERROR", <<>>, {})
    ELSE IF r.dups = {} THEN Line(path, "OK", <<>>, {})
    ELSE Line(path, "DUPLICATES", <<>>, r.dups)

\* main, lines 170-190: -k with -f.
DupSingle ==
    /\ pc = "main"
    /\ args.k
    /\ args.file # NoPath
    /\ LET r == find_duplicates_in_file(args.file)
       IN  /\ out' = out \cup {DupLine(args.file, r)}
           /\ Exit(IF ~r.ok THEN 2 ELSE IF r.dups = {} THEN 0 ELSE 1)
    /\ UNCHANGED <<args, preserve_order, dirs, fs, runs, dir, base_path,
                   base_keys, en_path, en_keys, keys, pending, any_errors,
                   any_duplicates, any_missing, exports, written>>

\* main, lines 191-203: -k over the directory, up to the loop.
DupDirOpen ==
    /\ pc = "main"
    /\ args.k
    /\ args.file = NoPath
    /\ IF ~exists(dir)
       THEN /\ out' = out \cup {Line(dir, "NO_DIRECTORY", <<>>, {})}
            /\ Exit(2)
            /\ UNCHANGED <<pending, any_errors, any_duplicates>>
       ELSE /\ any_errors' = FALSE
            /\ any_duplicates' = FALSE
            /\ pending' = read_dir(dir)
            /\ pc' = "dup_dir"
            /\ UNCHANGED <<exit_code, out>>
    /\ UNCHANGED <<args, preserve_order, dirs, fs, runs, dir, base_path,
                   base_keys, en_path, en_keys, keys, any_missing, exports,
                   written>>

\* main, lines 205-229: one entry of the directory.
DupDirEntry ==
    /\ pc = "dup_dir"
    /\ \E path \in pending :
        /\ pending' = pending \ {path}
        /\ IF is_file(path) /\ extension(path) = "json"
           THEN LET r == find_duplicates_in_file(path)
                IN  /\ out' = out \cup {DupLine(path, r)}
                    /\ any_errors' = (any_errors \/ ~r.ok)
                    /\ any_duplicates' = (any_duplicates \/ (r.ok /\ r.dups # {}))
           ELSE UNCHANGED <<out, any_errors, any_duplicates>>
    /\ UNCHANGED <<args, preserve_order, dirs, fs, pc, runs, dir, exit_code,
                   base_path, base_keys, en_path, en_keys, keys, any_missing,
                   exports, written>>

\* A variant of DupExitCode that looks at the duplicates before the errors.
DupExitCodeDuplicatesFirst ==
    IF any_duplicates THEN 1 ELSE IF any_errors THEN 2 ELSE 0

\* main, lines 231-237: the exit code after the loop.
DupExitCode == IF any_errors THEN 2 ELSE IF any_duplicates THEN 1 ELSE 0

DupDirExit ==
    /\ pc = "dup_dir"
    /\ pending = {}
    /\ Exit(DupExitCode)
    /\ UNCHANGED <<args, preserve_order, dirs, fs, runs, dir, base_path,
                   base_keys, en_path, en_keys, keys, pending, any_errors,
                   any_duplicates, any_missing, out, exports, written>>

\* ------------------------------------------------- main: the base file

\* main, lines 242-255 and 434-447: where --base (default en.json) is looked
\* for: as given when it holds a separator, else beside the file of -f, else
\* in dir.
BasePath ==
    LET base_file == IF args.base # NoPath THEN args.base ELSE <<"en.json">>
    IN  IF Len(base_file) > 1 THEN base_file
        ELSE IF args.file # NoPath THEN join(parent(args.file), base_file[1])
        ELSE join(dir, base_file[1])

\* A reference file is loaded: it exists, reads, parses and is an object
\* (lines 256-276, 340-360, 448-468).
Loads(path) ==
    /\ exists(path)
    /\ Readable(path)
    /\ from_str(Lookup(path)).ok
    /\ from_str(Lookup(path)).object

\* What reading and parsing a target gives: "read", "parse" and "root" are
\* the three errors, "object" the success.
TargetLoad(path) ==
    IF ~Readable(path) THEN "read"
    ELSE IF ~from_str(Lookup(path)).ok THEN "parse"
    ELSE IF ~from_str(Lookup(path)).object THEN "root"
    ELSE "object"

\* The target's top-level keys, a HashSet<String>.
TargetKeys(path) == Range(MapKeys(from_str(Lookup(path)).map))

\* ------------------------------------------------------ main: missing_key

\* main, lines 241-284: the base is loaded into base_keys and the export
\* directory is created.
MissingLoadBase ==
    /\ pc = "main"
    /\ ~args.k
    /\ args.m
    /\ base_path' = BasePath
    /\ IF ~Loads(BasePath)
       THEN /\ out' = out \cup {Line(BasePath, "BASE_ERROR", <<>>, {})}
            /\ Exit(2)
            /\ UNCHANGED <<base_keys, dirs>>
       ELSE /\ base_keys' = Range(MapKeys(from_str(Lookup(BasePath)).map))
            /\ dirs' = IF args.export # NoPath THEN dirs \cup {args.export} ELSE dirs
            /\ pc' = "missing"
            /\ UNCHANGED <<exit_code, out>>
    /\ UNCHANGED <<args, preserve_order, fs, runs, dir, en_path, en_keys, keys,
                   pending, any_errors, any_duplicates, any_missing, exports,
                   written>>

\* main, lines 286-332: -m with -f.  The missing keys are listed in the order
\* the HashSet difference yields them.
MissingSingle ==
    /\ pc = "missing"
    /\ args.file # NoPath
    /\ LET path == args.file
           st == TargetLoad(path)
       IN  IF st # "object"
           THEN /\ out' = out \cup {Line(path, "ERROR", <<>>, {})}
                /\ Exit(2)
                /\ UNCHANGED exports
           ELSE \E missing \in Orderings(base_keys \ TargetKeys(path)) :
                    IF missing = <<>>
                    THEN /\ out' = out \cup {Line(path, "OK", <<>>, {})}
                         /\ Exit(0)
                         /\ UNCHANGED exports
                    ELSE /\ out' = out \cup {Line(path, "MISSING", missing, {})}
                         /\ exports' = IF args.export # NoPath
                                       THEN WriteExport(path, missing)
                                       ELSE exports
                         /\ Exit(1)
    /\ UNCHANGED <<args, preserve_order, dirs, fs, runs, dir, base_path,
                   base_keys, en_path, en_keys, keys, pending, any_errors,
                   any_duplicates, any_missing, written>>

\* main, lines 333-367: -m over the directory, up to the loop: en.json of the
\* directory is loaded into en_keys.
MissingDirOpen ==
    /\ pc = "missing"
    /\ args.file = NoPath
    /\ IF ~exists(dir)
       THEN /\ out' = out \cup {Line(dir, "NO_DIRECTORY", <<>>, {})}
            /\ Exit(2)
            /\ UNCHANGED <<en_path, en_keys, any_missing, pending>>
       ELSE /\ en_path' = join(dir, "en.json")
            /\ IF ~Loads(join(dir, "en.json"))
               THEN /\ out' = out \cup {Line(join(dir, "en.json"), "BASE_ERROR", <<>>, {})}
                    /\ Exit(2)
                    /\ UNCHANGED <<en_keys, any_missing, pending>>
               ELSE /\ en_keys' = Range(MapKeys(from_str(Lookup(join(dir, "en.json"))).map))
                    /\ any_missing' = FALSE
                    /\ pending' = read_dir(dir)
                    /\ pc' = "missing_dir"
                    /\ UNCHANGED <<exit_code, out>>
    /\ UNCHANGED <<args, preserve_order, dirs, fs, runs, dir, base_path,
                   base_keys, keys, any_errors, any_duplicates, exports, written>>

\* main, line 371: the entries the missing-key loop takes as targets.
MissingTarget(path) ==
    is_file(path) /\ extension(path) = "json" /\ path # en_path

\* main, lines 369-423: one entry of the directory.
MissingDirEntry ==
    /\ pc = "missing_dir"
    /\ \E path \in pending :
        /\ pending' = pending \ {path}
        /\ IF ~MissingTarget(path)
           THEN UNCHANGED <<out, any_missing, exports>>
           ELSE IF TargetLoad(path) # "object"
           THEN /\ out' = out \cup {Line(path, "ERROR", <<>>, {})}
                /\ UNCHANGED <<any_missing, exports>>
           ELSE \E missing \in Orderings(en_keys \ TargetKeys(path)) :
                    IF missing = <<>>
                    THEN /\ out' = out \cup {Line(path, "OK", <<>>, {})}
                         /\ UNCHANGED <<any_missing, exports>>
                    ELSE /\ any_missing' = TRUE
                         /\ out' = out \cup {Line(path, "MISSING", missing, {})}
                         /\ exports' = IF args.export # NoPath
                                       THEN WriteExport(path, missing)
                                       ELSE exports
    /\ UNCHANGED <<args, preserve_order, dirs, fs, pc, runs, dir, exit_code,
                   base_path, base_keys, en_path, en_keys, keys, any_errors,
                   any_duplicates, written>>

\* main, lines 425-429: the exit code after the loop.
MissingExitCode == IF any_missing THEN 1 ELSE 0

MissingDirExit ==
    /\ pc = "missing_dir"
    /\ pending = {}
    /\ Exit(MissingExitCode)
    /\ UNCHANGED <<args, preserve_order, dirs, fs, runs, dir, base_path,
                   base_keys, en_path, en_keys, keys, pending, any_errors,
                   any_duplicates, any_missing, out, exports, written>>

\* ------------------------------------------------------------- main: sort

\* main, lines 477-481 and 530-534: each key of the base that the target has
\* is removed from the target's map and inserted into sorted_map.
RECURSIVE MoveBaseKeys(_, _, _)
MoveBaseKeys(ks, map, sorted_map) ==
    IF ks = <<>> THEN [map |-> map, sorted_map |-> sorted_map]
    ELSE IF MapHas(map, Head(ks))
         THEN MoveBaseKeys(Tail(ks), MapRemove(map, Head(ks)),
                           MapInsert(sorted_map, Head(ks), MapGet(map, Head(ks))))
    ELSE MoveBaseKeys(Tail(ks), map, sorted_map)

\* The sort without its second loop: the keys the base lacks are lost.
AddRemainingDropped(map, sorted_map) == sorted_map

\* main, lines 483-485 and 536-538: what is left of the target's map is
\* inserted in the map's iteration order.
RECURSIVE AddRemaining(_, _)
AddRemaining(map, sorted_map) ==
    IF map = <<>> THEN sorted_map
    ELSE AddRemaining(Tail(map), MapInsert(sorted_map, Head(map).key, Head(map).val))

\* main, lines 475-486 and 528-539: the map that is written back.
SortedMap(ks, map) ==
    LET r == MoveBaseKeys(ks, map, <<>>)
    IN  AddRemaining(r.map, r.sorted_map)

\* The sort branch entered whatever other flags are given, as if the earlier
\* branches fell through to it.
SortLoadBaseAfterOthers ==
    /\ pc = "main"
    /\ args.s
    /\ base_path' = BasePath
    /\ IF ~Loads(BasePath)
       THEN /\ out' = out \cup {Line(BasePath, "BASE_ERROR", <<>>, {})}
            /\ Exit(2)
            /\ UNCHANGED keys
       ELSE /\ keys' = MapKeys(from_str(Lookup(BasePath)).map)
            /\ pc' = "sort"
            /\ UNCHANGED <<exit_code, out>>
    /\ UNCHANGED <<args, preserve_order, dirs, fs, runs, dir, base_keys, en_path,
                   en_keys, pending, any_errors, any_duplicates, any_missing,
                   exports, written>>

\* main, lines 433-468: the base is loaded into keys.
SortLoadBase ==
    /\ pc = "main"
    /\ ~args.k
    /\ ~args.m
    /\ args.s
    /\ base_path' = BasePath
    /\ IF ~Loads(BasePath)
       THEN /\ out' = out \cup {Line(BasePath, "BASE_ERROR", <<>>, {})}
            /\ Exit(2)
            /\ UNCHANGED keys
       ELSE /\ keys' = MapKeys(from_str(Lookup(BasePath)).map)
            /\ pc' = "sort"
            /\ UNCHANGED <<exit_code, out>>
    /\ UNCHANGED <<args, preserve_order, dirs, fs, runs, dir, base_keys, en_path,
                   en_keys, pending, any_errors, any_duplicates, any_missing,
                   exports, written>>

\* fs::write(path, to_string_pretty(sorted_map)).
WriteSorted(path) ==
    /\ fs' = [fs EXCEPT ![Canon(path)] =
                to_string_pretty(SortedMap(keys, from_str(Lookup(path)).map))]
    /\ written' = written \cup {path}

\* main, lines 470-509: -s with -f.
SortSingle ==
    /\ pc = "sort"
    /\ args.file # NoPath
    /\ IF TargetLoad(args.file) # "object"
       THEN /\ out' = out \cup {Line(args.file, "ERROR", <<>>, {})}
            /\ Exit(2)
            /\ UNCHANGED <<fs, written>>
       ELSE /\ WriteSorted(args.file)
            /\ out' = out \cup {Line(args.file, "Sorted", <<>>, {})}
            /\ Exit(0)
    /\ UNCHANGED <<args, preserve_order, dirs, runs, dir, base_path, base_keys,
                   en_path, en_keys, keys, pending, any_errors, any_duplicates,
                   any_missing, exports>>

\* main, lines 510-519: -s over the directory, up to the loop.
SortDirOpen ==
    /\ pc = "sort"
    /\ args.file = NoPath
    /\ IF ~exists(dir)
       THEN /\ out' = out \cup {Line(dir, "NO_DIRECTORY", <<>>, {})}
            /\ Exit(2)
            /\ UNCHANGED pending
       ELSE /\ pending' = read_dir(dir)
            /\ pc' = "sort_dir"
            /\ UNCHANGED <<exit_code, out>>
    /\ UNCHANGED <<args, preserve_order, dirs, fs, runs, dir, base_path,
                   base_keys, en_path, en_keys, keys, any_errors, any_duplicates,
                   any_missing, exports, written>>

\* main, line 523: the entries the sort loop takes as targets.
SortTarget(path) ==
    is_file(path) /\ extension(path) = "json" /\ path # base_path

\* main, lines 521-559: one entry of the directory.
SortDirEntry ==
    /\ pc = "sort_dir"
    /\ \E path \in pending :
        /\ pending' = pending \ {path}
        /\ IF ~SortTarget(path)
           THEN UNCHANGED <<out, fs, written>>
           ELSE IF TargetLoad(path) # "object"
           THEN /\ out' = out \cup {Line(path, "ERROR", <<>>, {})}
                /\ UNCHANGED <<fs, written>>
           ELSE /\ WriteSorted(path)
                /\ out' = out \cup {Line(path, "Sorted", <<>>, {})}
    /\ UNCHANGED <<args, preserve_order, dirs, pc, runs, dir, exit_code,
                   base_path, base_keys, en_path, en_keys, keys, any_errors,
                   any_duplicates, any_missing, exports>>

\* main, line 561: the exit code after the loop.
SortExitCode == 0

SortDirExit ==
    /\ pc = "sort_dir"
    /\ pending = {}
    /\ Exit(SortExitCode)
    /\ UNCHANGED <<args, preserve_order, dirs, fs, runs, dir, base_path,
                   base_keys, en_path, en_keys, keys, pending, any_errors,
                   any_duplicates, any_missing, out, exports, written>>

\* ------------------------------------------------------------- main: help

\* main, lines 565-567: no operation flag.
Help ==
    /\ pc = "main"
    /\ ~args.k
    /\ ~args.m
    /\ ~args.s
    /\ out' = out \cup {Line(NoPath, "HELP", <<>>, {})}
    /\ Exit(0)
    /\ UNCHANGED <<args, preserve_order, dirs, fs, runs, dir, base_path,
                   base_keys, en_path, en_keys, keys, pending, any_errors,
                   any_duplicates, any_missing, exports, written>>

\* The tool is run again with the same command line on the files as they are.
Rerun ==
    /\ pc = "exit"
    /\ runs < MaxRuns
    /\ runs' = runs + 1
    /\ pc' = "start"
    /\ exit_code' = -1
    /\ dir' = NoPath
    /\ base_path' = NoPath
    /\ base_keys' = {}
    /\ en_path' = NoPath
    /\ en_keys' = {}
    /\ keys' = <<>>
    /\ pending' = {}
    /\ any_errors' = FALSE
    /\ any_duplicates' = FALSE
    /\ any_missing' = FALSE
    /\ out' = {}
    /\ written' = {}
    /\ UNCHANGED <<args, preserve_order, dirs, fs, exports>>

\* ------------------------------------------------------------ initial states

Digits == <<"1", "2", "3", "4", "5">>

\* The entries with the keys ks in this order, the i-th with the value i.
Keyed(ks) == [i \in 1..Len(ks) |-> Entry(ks[i], FALSE, <<Digits[i]>>)]

Names == {"en.json", "zh.json", "fr.json", "notes.txt"}

FsPaths == {join(d, n) : d \in {Locales, SrcLocales}, n \in Names} \cup {<<"fr.json">>}

\* A text file that is no JSON, in the locale directory.
NotesDoc == Doc("malformed", <<>>)

\* fr.json of the current directory, outside the locale directory.
CwdDoc == Doc("object", Keyed(<<<<"a">>>>))

\* The files: en.json, zh.json, fr.json and notes.txt in the directory home,
\* and fr.json in the current directory.
MakeFs(home, en, zh, fr) ==
    [p \in FsPaths |->
        IF p = <<"fr.json">> THEN CwdDoc
        ELSE IF parent(p) # home THEN AbsentDoc
        ELSE CASE file_name(p) = "en.json" -> en
               [] file_name(p) = "zh.json" -> zh
               [] file_name(p) = "fr.json" -> fr
               [] file_name(p) = "notes.txt" -> NotesDoc]

Locals ==
    /\ pc = "start"
    /\ runs = 1
    /\ dir = NoPath
    /\ exit_code = -1
    /\ base_path = NoPath
    /\ base_keys = {}
    /\ en_path = NoPath
    /\ en_keys = {}
    /\ keys = <<>>
    /\ pending = {}
    /\ any_errors = FALSE
    /\ any_duplicates = FALSE
    /\ any_missing = FALSE
    /\ out = {}
    /\ exports = {}
    /\ written = {}

\* The command lines: an option is given only with a flag whose operation
\* reads it.
ArgSet ==
    {a \in [k : BOOLEAN, m : BOOLEAN, s : BOOLEAN,
            directory : {NoPath, Locales},
            base : {NoPath, <<"zh.json">>, <<".", "locales", "zh.json">>},
            file : {NoPath, <<"locales", "fr.json">>, <<"fr.json">>},
            export : {NoPath, <<"out">>}] :
        /\ a.export # NoPath => a.m
        /\ a.base # NoPath => (a.m \/ a.s)
        /\ a.file # NoPath => (a.k \/ a.m \/ a.s)}

MainKeySet == {<<"a">>, <<"b">>}

\* The contents of a locale file that exists.
MainDocs ==
    {Doc("unreadable", <<>>), Doc("array", <<>>)}
        \cup {Doc("object", Keyed(ks)) : ks \in SeqsUpTo(MainKeySet, MaxKeys)}
        \cup {Doc("malformed", Keyed(ks)) : ks \in SeqsUpTo({<<"a">>}, MaxKeys) \ {<<>>}}

\* A usual set of locale files.
StdFs(home) ==
    MakeFs(home, Doc("object", Keyed(<<<<"a">>, <<"b">>>>)),
           Doc("object", Keyed(<<<<"a">>>>)),
           Doc("object", Keyed(<<<<"b">>, <<"a">>>>)))

\* The builds: the preserve_order feature changes only the order in which a
\* Map yields its entries, which main observes in the sort branch alone (the
\* other branches collect the keys into a HashSet).
Builds(a) == IF a.s /\ ~a.k /\ ~a.m THEN BOOLEAN ELSE {TRUE}

\* Every command line on the default layout (./locales alone, no -d) with
\* every content of the three locale files; every command line on the other
\* layouts with the usual files in the first default directory that exists.
Init ==
    /\ Locals
    /\ args \in ArgSet
    /\ preserve_order \in Builds(args)
    /\ dirs \in SUBSET {Locales, SrcLocales}
    /\ IF dirs = {Locales} /\ args.directory = NoPath
       THEN \E en \in MainDocs \cup {AbsentDoc}, zh \in MainDocs, fr \in MainDocs :
                fs = MakeFs(Locales, en, zh, fr)
       ELSE fs = StdFs(IF Locales \in dirs THEN Locales
                       ELSE IF SrcLocales \in dirs THEN SrcLocales ELSE NoPath)

Next ==
    \/ ResolveDir
    \/ DupSingle
    \/ DupDirOpen
    \/ DupDirEntry
    \/ DupDirExit
    \/ MissingLoadBase
    \/ MissingSingle
    \/ MissingDirOpen
    \/ MissingDirEntry
    \/ MissingDirExit
    \/ SortLoadBase
    \/ SortSingle
    \/ SortDirOpen
    \/ SortDirEntry
    \/ SortDirExit
    \/ Help

Spec == Init /\ [][Next]_vars

\* The duplicate scan of one file, over texts with escapes in keys, spaces
\* before the colon, string values and nested objects.
NestedVal ==
    <<"{", "\"", "n", "\"", ":", "\"", "}", "\"", ",",
      "\"", "n", "\"", ":", "1", "}">>

ScanKeySet == {<<"a">>, <<"n">>, <<"\\", "n">>}

ScanValSet == {<<"1">>, <<"\"", "n", "\"">>, NestedVal}

ScanEntries == {Entry(k, sp, v) : k \in ScanKeySet, sp \in BOOLEAN, v \in ScanValSet}

ScanInit ==
    /\ Locals
    /\ args = [k |-> TRUE, m |-> FALSE, s |-> FALSE, directory |-> NoPath,
               base |-> NoPath, file |-> <<"locales", "fr.json">>,
               export |-> NoPath]
    /\ preserve_order \in Builds(args)
    /\ dirs = {Locales}
    /\ \E kind \in {"object", "malformed"}, es \in SeqsUpTo(ScanEntries, MaxScanEntries) :
            fs = MakeFs(Locales, AbsentDoc, AbsentDoc, Doc(kind, es))

ScanNext == ResolveDir \/ DupSingle

SpecScan == ScanInit /\ [][ScanNext]_vars

\* The sort of one target against en.json, run MaxRuns times.
SortKeySet == {<<"a">>, <<"b">>, <<"c">>, <<"x">>}

SortInit ==
    /\ Locals
    /\ \E file \in {NoPath, <<"locales", "fr.json">>} :
            args = [k |-> FALSE, m |-> FALSE, s |-> TRUE, directory |-> NoPath,
                    base |-> NoPath, file |-> file, export |-> NoPath]
    /\ preserve_order \in Builds(args)
    /\ dirs = {Locales}
    /\ \E bs \in SeqsUpTo(SortKeySet, MaxSortKeys), ts \in SeqsUpTo(SortKeySet, MaxSortKeys) :
            fs = MakeFs(Locales, Doc("object", Keyed(bs)), AbsentDoc, Doc("object", Keyed(ts)))

SortNext ==
    \/ ResolveDir
    \/ SortLoadBase
    \/ SortSingle
    \/ SortDirOpen
    \/ SortDirEntry
    \/ SortDirExit
    \/ Rerun

SpecSort == SortInit /\ [][SortNext]_vars

\* ------------------------------------------------------------------ claims

\* The JSON strings of a document's top-level keys, in source order.
TopKeys(doc) == [i \in 1..Len(doc.entries) |-> Unescape(doc.entries[i].key)]

\* The lines printed about the file at path.
LinesOf(path) == {l \in out : l.path = path}

\* The duplicate scan of the file of -f has ended and the file is a JSON object.
ScannedObject ==
    /\ pc = "exit"
    /\ args.k
    /\ args.file # NoPath
    /\ Lookup(args.file).kind = "object"

\* C1: after the duplicate scan of a JSON object, the reported map holds
\* exactly the top-level keys that occur more than once in the text, each
\* with the number of its occurrences at depth 1: a key that occurs N > 1
\* times has count N, a key that occurs once is not in the map, and the
\* occurrences of a key inside nested objects are not counted.
C1_DuplicateCounts ==
    ScannedObject =>
        \A l \in LinesOf(args.file) :
            l.counts = Duplicates(TopKeys(Lookup(args.file)))

\* C2: after the duplicate scan of a JSON object whose top-level keys are
\* pairwise distinct JSON strings, the file is reported OK: no duplicate, no
\* error, exit code 0.
C2_DistinctKeysOk ==
    (/\ ScannedObject
     /\ Duplicates(TopKeys(Lookup(args.file))) = {})
        => /\ out = {Line(args.file, "OK", <<>>, {})}
           /\ exit_code = 0

\* The keys ks without their repetitions, each at its first place.
RECURSIVE Dedup(_)
Dedup(ks) ==
    IF ks = <<>> THEN <<>>
    ELSE LET r == Dedup(SubSeq(ks, 1, Len(ks) - 1))
         IN  IF ks[Len(ks)] \in Range(r) THEN r ELSE Append(r, ks[Len(ks)])

\* The top-level keys of a document in the order in which its text has them.
SourceOrder(doc) == Dedup(TopKeys(doc))

\* The keys of base that target lacks, in base's source order.
ExpectedMissing(base, target) ==
    SelectSeq(SourceOrder(base), LAMBDA k : k \notin Range(TopKeys(target)))

\* The reference of a missing-key run without --base: en.json.
MissingRef == IF args.file # NoPath THEN base_path ELSE en_path

\* C3: in a missing-key run (here: with the default base), the list reported
\* for a target, and the list exported for it, is the keys of the base that
\* the target lacks, each once, in the order of the base file.
C3_MissingInBaseOrder ==
    (~args.k /\ args.m /\ args.base = NoPath) =>
        \A l \in out :
            l.tag \in {"OK", "MISSING"} =>
                /\ l.list = ExpectedMissing(Lookup(MissingRef), Lookup(l.path))
                /\ (l.tag = "MISSING" /\ args.export # NoPath) =>
                        [path |-> join(args.export, ExportName(l.path)),
                         json |-> ExpectedMissing(Lookup(MissingRef), Lookup(l.path))]
                            \in exports

\* The keys of S in ascending order.
Ascending(S) ==
    CHOOSE q \in Orderings(S) :
        \A i \in 1..Len(q), j \in 1..Len(q) : i < j => StrLess(q[i], q[j])

\* The target's keys that the base has, in the base file's source order, then
\* the target's other keys in ascending order.
ExpectedOrder(base, target) ==
    SelectSeq(SourceOrder(base), LAMBDA k : k \in Range(TopKeys(target)))
        \o Ascending(Range(TopKeys(target)) \ Range(TopKeys(base)))

\* C4: every file the sort rewrites lists first its keys that the base has,
\* in the base file's source order, then its other keys in ascending order.
C4_SortOrder ==
    [][\A p \in written' \ written :
            TopKeys(Lookup(p))' = ExpectedOrder(Lookup(base_path), Lookup(p))]_vars

\* C5: a second run of the sort, on the files the first run left, changes no
\* file.
C5_SortIdempotent == [][runs >= 2 => fs' = fs]_vars

\* The .json files of the directory.
JsonFiles == {p \in read_dir(dir) : extension(p) = "json"}

\* The loop over the directory has ended and main exits.
DirExit == pc \in {"dup_dir", "missing_dir", "sort_dir"} /\ pc' = "exit"

\* The targets of a directory run: every .json file, but the reference files.
Targets ==
    IF pc = "dup_dir" THEN JsonFiles
    ELSE IF pc = "missing_dir"
    THEN {p \in JsonFiles : Canon(p) \notin {Canon(base_path), Canon(en_path)}}
    ELSE {p \in JsonFiles : Canon(p) # Canon(base_path)}

\* The file has a per-file error: it is unreadable, malformed JSON, or JSON
\* whose root is no object.  The duplicate scan looks at the raw text only:
\* for it a root that is no object is no error, and a malformed file is one
\* only when it shows no duplicate.
TargetError(p) ==
    IF pc = "dup_dir"
    THEN \/ Lookup(p).kind = "unreadable"
         \/ Lookup(p).kind = "malformed" /\ Duplicates(TopKeys(Lookup(p))) = {}
    ELSE Lookup(p).kind \in {"unreadable", "malformed", "array"}

\* C6: when the loop of a directory run ends and some target had a per-file
\* error, every target has been reported on and the exit code is 2.
C6_ErrorExitsTwo ==
    [][(DirExit /\ \E p \in Targets : TargetError(p)) =>
            /\ exit_code' = 2
            /\ \A p \in Targets : LinesOf(p) # {}]_vars

\* main printed one of its fatal messages.
Fatal == \E l \in out : l.tag \in {"NO_DEFAULT_DIRECTORY", "NO_DIRECTORY", "BASE_ERROR"}

\* A duplicate scan, resp. a missing-key scan, of the directory has run its
\* loop and ended.
DupBatchDone == pc = "exit" /\ args.k /\ args.file = NoPath /\ ~Fatal

MissingBatchDone == pc = "exit" /\ ~args.k /\ args.m /\ args.file = NoPath /\ ~Fatal

Tagged(tag) == \E l \in out : l.tag = tag

\* C7: a directory run of the duplicate scan or of the missing-key scan
\* reports on every .json file it takes (a finding stops nothing); when no
\* file gave an error it exits 1 if some file had a finding and 0 if none
\* had; in the duplicate scan an error in any file gives exit code 2, also
\* when duplicates were found.
C7_FindingsAndExitCode ==
    /\ DupBatchDone =>
        /\ \A p \in JsonFiles : LinesOf(p) # {}
        /\ exit_code = IF Tagged("ERROR") THEN 2
                       ELSE IF Tagged("DUPLICATES") THEN 1 ELSE 0
    /\ MissingBatchDone =>
        /\ \A p \in JsonFiles : p # en_path => LinesOf(p) # {}
        /\ ~Tagged("ERROR") => exit_code = IF Tagged("MISSING") THEN 1 ELSE 0

\* A duplicate scan of the directory found duplicates in one file, an error
\* in another, reported on all three and exited with 2.
C7_Witness ==
    /\ DupBatchDone
    /\ Tagged("DUPLICATES")
    /\ Tagged("ERROR")
    /\ Tagged("OK")
    /\ exit_code = 2

\* The lines that report on a file as a target.
TargetTags == {"OK", "MISSING", "ERROR", "Sorted"}

\* C8: in a directory run of the missing-key scan or of the sort, the file
\* that --base names (default en.json) is not reported on as a target and is
\* not rewritten.
C8_BaseNeverTarget ==
    (~args.k /\ (args.m \/ args.s) /\ args.file = NoPath /\ base_path # NoPath) =>
        /\ \A l \in out : l.tag \in TargetTags => Canon(l.path) # Canon(base_path)
        /\ \A w \in written : Canon(w) # Canon(base_path)

\* The file --base names, a bare name being looked for in the directory.
ClaimedBase ==
    LET base_file == IF args.base # NoPath THEN args.base ELSE <<"en.json">>
    IN  IF Len(base_file) > 1 THEN base_file ELSE join(dir, base_file[1])

\* C9: in a missing-key run the base is the file --base names, a bare name
\* resolved in the directory, and the keys reported missing for a target are
\* the keys of that file which the target lacks.
C9_BaseIsReference ==
    (~args.k /\ args.m /\ base_path # NoPath) =>
        /\ base_path = ClaimedBase
        /\ \A l \in out :
            l.tag \in {"OK", "MISSING"} =>
                Range(l.list) = Range(TopKeys(Lookup(ClaimedBase)))
                                    \ Range(TopKeys(Lookup(l.path)))

\* C10: without -k, -m and -s the run prints the help and exits with 0,
\* whatever directories exist; the "no default directory" exit happens only
\* when an operation flag is given.
C10_HelpExitsZero ==
    /\ (pc = "exit" /\ ~args.k /\ ~args.m /\ ~args.s) =>
            /\ exit_code = 0
            /\ Tagged("HELP")
    /\ Tagged("NO_DEFAULT_DIRECTORY") => (args.k \/ args.m \/ args.s)

\* A missing-key run took the file of the line l as a target and compared it.
Compared(l) == l.tag \in {"OK", "MISSING"}

\* C11: in a missing-key run with --export, for every target that was
\* compared (also one that lacks no key) the export directory exists and
\* holds <stem>_missing.json with the array of the keys reported missing for
\* that target.
C11_ExportPerTarget ==
    (~args.k /\ args.m /\ args.export # NoPath) =>
        \A l \in out :
            Compared(l) =>
                /\ args.export \in dirs
                /\ \E e \in exports :
                        /\ e.path = join(args.export, ExportName(l.path))
                        /\ Range(e.json) = Range(l.list)

\* The value a JSON object gives the key k: that of k's last occurrence.
ValueOf(doc, k) ==
    doc.entries[CHOOSE i \in 1..Len(doc.entries) :
        /\ Unescape(doc.entries[i].key) = k
        /\ \A j \in (i + 1)..Len(doc.entries) : Unescape(doc.entries[j].key) # k].val

\* new is an object with the keys of the object old, each once and with the
\* value old gives it.
SameContent(old, new) ==
    /\ old.kind = "object"
    /\ new.kind = "object"
    /\ Range(TopKeys(new)) = Range(TopKeys(old))
    /\ Len(TopKeys(new)) = Cardinality(Range(TopKeys(new)))
    /\ \A k \in Range(TopKeys(old)) : ValueOf(new, k) = ValueOf(old, k)

\* The files a step of the sort writes.
Rewritten == {Canon(p) : p \in written' \ written}

\* C12: a file the sort rewrites was a JSON object and is afterwards an object
\* with exactly the same top-level keys (no key of the base added, none of
\* the target dropped), each with the value it had; every other file, among
\* them a target that does not read, does not parse or is no object, is left
\* as it was.
C12_SortPreservesContent ==
    [][\A q \in DOMAIN fs :
            IF q \in Rewritten THEN SameContent(fs[q], fs'[q])
            ELSE fs'[q] = fs[q]]_vars

\* A sort of the directory has ended: it rewrote a target that has a key the
\* base lacks and lacks a key the base has, and it reported an error for
\* another target.
C12_Witness ==
    /\ pc = "exit"
    /\ Tagged("ERROR")
    /\ \E p \in written :
        /\ Range(TopKeys(Lookup(p))) \ Range(keys) # {}
        /\ Range(keys) \ Range(TopKeys(Lookup(p))) # {}

\* The positions of main inside the missing-key branch and the sort branch.
InMissing == pc \in {"missing", "missing_dir"}

InSort == pc \in {"sort", "sort_dir"}

\* C13: one operation runs per invocation, the duplicate scan before the
\* missing-key scan before the sort: main is in the missing-key branch only
\* without -k and in the sort branch only without -k and -m; with -s and one
\* of -k, -m no file is rewritten or changed; with -k no missing-key report is
\* printed, no base is loaded and nothing is exported, the export directory
\* not being created.
C13_OneOperation ==
    /\ [](/\ InMissing => ~args.k
          /\ InSort => (~args.k /\ ~args.m)
          /\ (args.s /\ (args.k \/ args.m)) =>
                /\ written = {}
                /\ ~Tagged("Sorted")
          /\ args.k =>
                /\ ~Tagged("MISSING")
                /\ ~Tagged("BASE_ERROR")
                /\ base_path = NoPath
                /\ exports = {}
                /\ (args.export # NoPath => args.export \notin dirs))
    /\ [][(args.s /\ (args.k \/ args.m)) => fs' = fs]_vars

\* A run with -k, -m, -s and --export has ended: the duplicate scan found
\* duplicates and exited with 1.
C13_Witness ==
    /\ pc = "exit"
    /\ args.k
    /\ args.m
    /\ args.s
    /\ args.export # NoPath
    /\ Tagged("DUPLICATES")
    /\ exit_code = 1

====
